---------------------------- MODULE Spec2Model ----------------------------
(***************************************************************************)
(* The PLONK prover of prover.py as a state machine.                       *)
(*                                                                         *)
(* One Prover instance (`self`) is constructed for a fixed circuit and     *)
(* then runs prove(witness) any number of times.  prove is a straight line *)
(* of eleven steps (PI, round_1, transcript.round_1, ..., round_5, return);*)
(* each step is one action and `pc` is prove's position.  A failing assert *)
(* or a KeyError leaves pc = "aborted" with `err` naming the place.        *)
(*                                                                         *)
(* Scalars are the elements of the prime field F_P.  The scalar field, the *)
(* polynomial class, the commitment, the transcript and the compiled       *)
(* circuit are libraries the prover imports; they are modelled by what     *)
(* they compute.  Sequences are 1-indexed: values[i] of the code is        *)
(* values[i+1] here.                                                       *)
(***************************************************************************)
EXTENDS Integers, Sequences, FiniteSets, TLC

(***************************************************************************)
(* Scalar: the prime field.                                                *)
(***************************************************************************)
\* field modulus: a prime with 4*group_order dividing P-1 and room for a coset
P == 97
\* a generator of the multiplicative group of F_P
GEN == 5
\* group_order of the compiled circuit
N == 4

\* a vector built by a function constructor, evaluated once into a tuple
Vec(f) == f \o << >>

FAdd(x, y) == (x + y) % P
FSub(x, y) == (x + P - y) % P
FMul(x, y) == (x * y) % P
FNeg(x) == (P - x) % P
\* Scalar(k) for a Python int k >= 0
Scalar(k) == k % P

RECURSIVE FPow(_, _)
FPow(x, e) == IF e = 0 THEN 1 ELSE FMul(x, FPow(x, e - 1))

InvTable == [x \in 1..(P - 1) |-> CHOOSE y \in 1..(P - 1) : (x * y) % P = 1]
\* the field library's inverse maps 0 to 0
FInv(x) == IF x % P = 0 THEN 0 ELSE InvTable[x % P]
FDiv(x, y) == FMul(x, FInv(y))

\* Scalar.root_of_unity(n)
RootOfUnity(n) == FPow(GEN, (P - 1) \div n)
\* 1, w, w^2, ..., w^(n-1) for w = root_of_unity(n)
PowersOfRoot(n) == Vec([i \in 1..n |-> FPow(RootOfUnity(n), i - 1)])
Roots4 == PowersOfRoot(N)
Roots16 == PowersOfRoot(4 * N)
\* Scalar.roots_of_unity(n); the two domains in use are tabulated
RootsOfUnity(n) == IF n = N THEN Roots4 ELSE IF n = 4 * N THEN Roots16 ELSE PowersOfRoot(n)

RECURSIVE SumSeq(_)
SumSeq(s) == IF Len(s) = 0 THEN 0 ELSE FAdd(Head(s), SumSeq(Tail(s)))

Zeros(k) == Vec([i \in 1..k |-> 0])

(***************************************************************************)
(* Polynomial: a vector of scalars.  A LAGRANGE polynomial holds the       *)
(* values at the roots of unity, a MONOMIAL one the coefficients.          *)
(***************************************************************************)
PolyAdd(p, q) == Vec([i \in 1..Len(p) |-> FAdd(p[i], q[i])])
PolySub(p, q) == Vec([i \in 1..Len(p) |-> FSub(p[i], q[i])])
PolyMul(p, q) == Vec([i \in 1..Len(p) |-> FMul(p[i], q[i])])
PolyDiv(p, q) == Vec([i \in 1..Len(p) |-> FDiv(p[i], q[i])])
\* polynomial (LAGRANGE) with a scalar
PolyScale(p, s) == Vec([i \in 1..Len(p) |-> FMul(p[i], s)])
PolyAddS(p, s) == Vec([i \in 1..Len(p) |-> FAdd(p[i], s)])
PolySubS(p, s) == Vec([i \in 1..Len(p) |-> FSub(p[i], s)])

\* evaluation of a coefficient vector at x (Horner)
RECURSIVE Horner(_, _, _)
Horner(c, x, k) == IF k > Len(c) THEN 0 ELSE FAdd(c[k], FMul(x, Horner(c, x, k + 1)))
EvalCoeffs(c, x) == Horner(c, x, 1)

\* Polynomial.fft: MONOMIAL -> LAGRANGE over the Len(c)-th roots of unity
Fft(c) ==
    LET n == Len(c)
        ru == RootsOfUnity(n)
    IN Vec([i \in 1..n |->
          SumSeq(Vec([j \in 1..n |-> FMul(c[j], ru[(((i - 1) * (j - 1)) % n) + 1])]))])

\* Polynomial.ifft: LAGRANGE -> MONOMIAL
Ifft(vals) ==
    LET n == Len(vals)
        ru == RootsOfUnity(n)
        ninv == FInv(n % P)
    IN Vec([i \in 1..n |->
          FMul(ninv,
               SumSeq(Vec([j \in 1..n |->
                         FMul(vals[j], ru[((n * n - (i - 1) * (j - 1)) % n) + 1])])))])

\* Polynomial.to_coset_extended_lagrange(offset): LAGRANGE over n points ->
\* values at offset * (4n-th roots of unity)
ToCosetExtendedLagrange(p, offset) ==
    LET n == Len(p)
        c == Ifft(p)
    IN Fft(Vec([i \in 1..(4 * n) |-> IF i <= n THEN FMul(FPow(offset, i - 1), c[i]) ELSE 0]))

\* Polynomial.coeffs_to_extended_lagrange(offset, group_order): MONOMIAL ->
\* values at offset * (4n-th roots of unity)
CoeffsToExtendedLagrange(c, offset, n) ==
    Fft(Vec([i \in 1..(4 * n) |-> IF i <= Len(c) THEN FMul(FPow(offset, i - 1), c[i]) ELSE 0]))

\* Polynomial.coset_extended_lagrange_to_coeffs(offset): the inverse of the above
CosetExtendedLagrangeToCoeffs(p, offset) ==
    LET c == Ifft(p)
        io == FInv(offset)
    IN Vec([i \in 1..Len(p) |-> FMul(c[i], FPow(io, i - 1))])

\* Polynomial.barycentric_eval(x) of a LAGRANGE polynomial
BarycentricEval(p, x) ==
    LET n == Len(p)
        ru == RootsOfUnity(n)
    IN FMul(FDiv(FSub(FPow(x, n), 1), n % P),
            SumSeq(Vec([i \in 1..n |-> FDiv(FMul(p[i], ru[i]), FSub(x, ru[i]))])))

(***************************************************************************)
(* Setup.commit: the KZG commitment of a LAGRANGE polynomial is its value  *)
(* at the secret point of the setup (times the group generator).           *)
(***************************************************************************)
\* the toxic waste of the trusted setup
TAU == 10
Commit(setup, p) == EvalCoeffs(Ifft(p), setup.tau)

(***************************************************************************)
(* Program: the compiled circuit                                           *)
(*     c public                                                            *)
(*     c <== a * b                                                         *)
(* with group_order 4: two constraints and two padding rows.               *)
(***************************************************************************)
NoneKey == "None"
Keys == {"a", "b", "c", NoneKey}
\* program.wires()
Wires == << [L |-> "c", R |-> NoneKey, O |-> NoneKey],
            [L |-> "a", R |-> "b", O |-> "c"] >>
\* program.get_public_assignments()
PublicVars == << "c" >>
\* program.common_preprocessed_input(): selectors and the copy permutation.
\* The cell (column k, row i) has the label k * w^i; c links (L,0) and (O,1),
\* the unused wire links (R,0), (O,0) and the cells of rows 2 and 3.
CommonPreprocessedInput ==
    LET w == Roots4
    IN [ QL |-> << 1, 0, 0, 0 >>,
         QR |-> << 0, 0, 0, 0 >>,
         QM |-> << 0, P - 1, 0, 0 >>,
         QO |-> << 0, 1, 0, 0 >>,
         QC |-> << 0, 0, 0, 0 >>,
         S1 |-> << FMul(3, w[2]), w[2], 3, FMul(3, w[3]) >>,
         S2 |-> << FMul(3, w[4]), FMul(2, w[2]), w[3], w[4] >>,
         S3 |-> << 2, 1, FMul(2, w[3]), FMul(2, w[4]) >> ]


(***************************************************************************)
(* Transcript: the Fiat-Shamir oracle.  It absorbs the scalars of a        *)
(* message into a running hash and derives each challenge from the hash    *)
(* alone.  The hash function is fixed per run (salt).  Challenges are      *)
(* drawn from the generic field elements: those at which no divisor of     *)
(* rounds 2 to 5 is zero (see NoZeroDivisor).                              *)
(***************************************************************************)
\* largest salt: the runs cover the hash functions 0..MaxSalt
MaxSalt == 1
\* modulus of the running hash
HashMod == 1009
Betas == << 2, 3, 4 >>
Gammas == << 11, 17, 20 >>
Alphas == << 3, 9 >>
Cofactors == << 5, 7 >>
Zetas == << 2, 5, 11 >>
Vs == << 2, 7 >>

RECURSIVE Mix(_, _)
Mix(h, xs) == IF Len(xs) = 0 THEN h ELSE Mix((h * 31 + Head(xs) + 1) % HashMod, Tail(xs))
\* a message is absorbed, and round k is recorded as called
Absorb(t, k, xs) == [h |-> Mix(t.h, xs), log |-> Append(t.log, k)]
Challenge(t, label, from) == from[((t.h + label) % Len(from)) + 1]

(***************************************************************************)
(* Messages and the Proof.                                                 *)
(***************************************************************************)
NoMsg1 == [a_1 |-> -1, b_1 |-> -1, c_1 |-> -1]
NoMsg2 == [z_1 |-> -1]
NoMsg3 == [t_lo_1 |-> -1, t_mid_1 |-> -1, t_hi_1 |-> -1]
NoMsg4 == [a_eval |-> -1, b_eval |-> -1, c_eval |-> -1,
           s1_eval |-> -1, s2_eval |-> -1, z_shifted_eval |-> -1]
NoMsg5 == [W_z_1 |-> -1, W_zw_1 |-> -1]
NoMsgs == [msg_1 |-> NoMsg1, msg_2 |-> NoMsg2, msg_3 |-> NoMsg3,
           msg_4 |-> NoMsg4, msg_5 |-> NoMsg5]
\* no Proof was returned
NoProof == NoMsgs

\* a flattening that stores a_1 under b_1 as well
FlattenDuplicated(proof) ==
    << << "a_1", proof.msg_1.a_1 >>,
       << "b_1", proof.msg_1.a_1 >>,
       << "c_1", proof.msg_1.c_1 >>,
       << "z_1", proof.msg_2.z_1 >>,
       << "t_lo_1", proof.msg_3.t_lo_1 >>,
       << "t_mid_1", proof.msg_3.t_mid_1 >>,
       << "t_hi_1", proof.msg_3.t_hi_1 >>,
       << "a_eval", proof.msg_4.a_eval >>,
       << "b_eval", proof.msg_4.b_eval >>,
       << "c_eval", proof.msg_4.c_eval >>,
       << "s1_eval", proof.msg_4.s1_eval >>,
       << "s2_eval", proof.msg_4.s2_eval >>,
       << "z_shifted_eval", proof.msg_4.z_shifted_eval >>,
       << "W_z_1", proof.msg_5.W_z_1 >>,
       << "W_zw_1", proof.msg_5.W_zw_1 >> >>

\* Proof.flatten: the dict, as its (key, value) pairs in insertion order
Flatten(proof) ==
    << << "a_1", proof.msg_1.a_1 >>,
       << "b_1", proof.msg_1.b_1 >>,
       << "c_1", proof.msg_1.c_1 >>,
       << "z_1", proof.msg_2.z_1 >>,
       << "t_lo_1", proof.msg_3.t_lo_1 >>,
       << "t_mid_1", proof.msg_3.t_mid_1 >>,
       << "t_hi_1", proof.msg_3.t_hi_1 >>,
       << "a_eval", proof.msg_4.a_eval >>,
       << "b_eval", proof.msg_4.b_eval >>,
       << "c_eval", proof.msg_4.c_eval >>,
       << "s1_eval", proof.msg_4.s1_eval >>,
       << "s2_eval", proof.msg_4.s2_eval >>,
       << "z_shifted_eval", proof.msg_4.z_shifted_eval >>,
       << "W_z_1", proof.msg_5.W_z_1 >>,
       << "W_zw_1", proof.msg_5.W_zw_1 >> >>

(***************************************************************************)
(* State.                                                                  *)
(***************************************************************************)
VARIABLES
    salt,        \* which hash function the transcript uses
    pc,          \* prove's position: "idle", a step of ProveOrder, "done", "aborted"
    err,         \* where prove aborted
    self,        \* the Prover instance: its fields
    witness,     \* the caller's witness dict (round_1 writes into it)
    transcript,  \* prove's local Transcript
    msgs,        \* prove's locals msg_1 .. msg_5
    r5,          \* round_5's locals R, W_z, W_zw
    result,      \* the Proof prove returned
    steps,       \* history: the steps this invocation has entered
    commits,     \* history: the number of setup.commit calls of this invocation
    written,     \* history: the fields of self this invocation has assigned
    staleReads,  \* history: the fields a step read before this invocation assigned them
    winput,      \* history: the witness dict as it was passed to this invocation
    reused,      \* history: this invocation was passed the previous one's dict
    last,        \* history: the last invocation that returned: its witness and Proof
    flat         \* what the caller got from flatten() on the returned Proof

vars == << salt, pc, err, self, witness, transcript, msgs, r5, result,
           steps, commits, written, staleReads, winput, reused, last, flat >>

\* the values a caller may give each wire variable
WitnessValues == [k \in Keys |->
    IF k = "a" THEN {2} ELSE IF k = "b" THEN {3, 4} ELSE IF k = "c" THEN {6, 8} ELSE {0, 5}]
\* the witness dicts a caller may pass: the unused wire and one of the
\* variables may be missing
WitnessDomains == { D \in SUBSET Keys : Cardinality({"a", "b", "c"} \ D) <= 1 }
Witnesses == UNION { {w \in [D -> 0..8] : \A k \in D : w[k] \in WitnessValues[k]} :
                     D \in WitnessDomains }
EmptyWitness == [k \in {} |-> 0]

\* Prover.__init__ : the fields it assigns; the per-proof fields do not exist yet
NewProver ==
    [ group_order |-> N,
      setup |-> [tau |-> TAU],
      pk |-> CommonPreprocessedInput,
      PI |-> << >>, A |-> << >>, B |-> << >>, C |-> << >>, Z |-> << >>,
      T |-> << >>, T1 |-> << >>, T2 |-> << >>, T3 |-> << >>,
      beta |-> -1, gamma |-> -1, alpha |-> -1, fft_cofactor |-> -1,
      zeta |-> -1, v |-> -1, msg4 |-> NoMsg4 ]

NoR5 == [R |-> << >>, W_z |-> << >>, W_zw |-> << >>]
NoLast == [set |-> FALSE, w |-> EmptyWitness, proof |-> NoProof]

Init ==
    /\ salt \in 0..MaxSalt
    /\ pc = "idle"
    /\ err = ""
    /\ self = NewProver
    /\ witness = EmptyWitness
    /\ transcript = [h |-> 0, log |-> << >>]
    /\ msgs = NoMsgs
    /\ r5 = NoR5
    /\ result = NoProof
    /\ steps = << >>
    /\ commits = 0
    /\ written = {}
    /\ staleReads = {}
    /\ winput = EmptyWitness
    /\ reused = FALSE
    /\ last = NoLast
    /\ flat = << >>

\* an order in which round_2 runs before the transcript hands back beta, gamma
ProveOrderSwapped == << "round_1", "round_2", "transcript_1", "transcript_2",
                        "round_3", "transcript_3", "round_4", "transcript_4",
                        "round_5", "return" >>

\* the statements of prove after the public-input polynomial, in order
ProveOrder == << "round_1", "transcript_1", "round_2", "transcript_2",
                 "round_3", "transcript_3", "round_4", "transcript_4",
                 "round_5", "return" >>
\* the step that follows step p
After(p) == LET i == CHOOSE k \in 1..Len(ProveOrder) : ProveOrder[k] = p
            IN ProveOrder[i + 1]

\* a transcript that starts from the number of messages the previous
\* invocation absorbed
NewTranscriptStale == [h |-> (salt + Len(transcript.log)) % HashMod, log |-> << >>]

\* Transcript(b"plonk")
NewTranscript == [h |-> salt, log |-> << >>]

\* a failed assert or a KeyError: the exception leaves prove, nothing is returned
Abort(site) ==
    /\ pc' = "aborted"
    /\ err' = site

\* the fields `reads` are read: those this invocation has not assigned are stale
Reads(reads) == staleReads' = staleReads \cup (reads \ written)

\* the Prover s after self.f = upd[f] for every field f of the record upd
Pick(s, upd, f) == IF f \in DOMAIN upd THEN upd[f] ELSE s[f]
Assigned(s, upd) ==
    [ group_order |-> s.group_order, setup |-> s.setup, pk |-> s.pk,
      PI |-> Pick(s, upd, "PI"),
      A |-> Pick(s, upd, "A"),
      B |-> Pick(s, upd, "B"),
      C |-> Pick(s, upd, "C"),
      Z |-> Pick(s, upd, "Z"),
      T |-> Pick(s, upd, "T"),
      T1 |-> Pick(s, upd, "T1"),
      T2 |-> Pick(s, upd, "T2"),
      T3 |-> Pick(s, upd, "T3"),
      beta |-> Pick(s, upd, "beta"),
      gamma |-> Pick(s, upd, "gamma"),
      alpha |-> Pick(s, upd, "alpha"),
      fft_cofactor |-> Pick(s, upd, "fft_cofactor"),
      zeta |-> Pick(s, upd, "zeta"),
      v |-> Pick(s, upd, "v"),
      msg4 |-> Pick(s, upd, "msg4") ]
Assign(upd) ==
    /\ self' = Assigned(self, upd)
    /\ written' = written \cup DOMAIN upd

(***************************************************************************)
(* prove, lines 51-63: a fresh transcript and the public-input polynomial. *)
(***************************************************************************)
\* PI: the negated public inputs, padded with zeros to group_order
PublicInputPoly(s, w) ==
    Vec([i \in 1..s.group_order |->
        IF i <= Len(PublicVars) THEN FNeg(Scalar(w[PublicVars[i]])) ELSE 0])

\* line 63: the field prove assigns before round 1
ProveUpdate(s, w) == [PI |-> PublicInputPoly(s, w)]

\* prove(w) is called with the dict w; `again` says that w is the dict object
\* the previous call was given (as that call left it)
Prove(w, again) ==
    /\ pc \in {"idle", "done", "aborted"}
    /\ witness' = w
    /\ winput' = w
    /\ reused' = again
    /\ last' = IF pc = "done" THEN [set |-> TRUE, w |-> winput, proof |-> result]
               ELSE last
    /\ transcript' = NewTranscript
    /\ msgs' = NoMsgs
    /\ r5' = NoR5
    /\ result' = NoProof
    /\ steps' = << >>
    /\ commits' = 0
    /\ staleReads' = {}
    /\ IF \E i \in 1..Len(PublicVars) : PublicVars[i] \notin DOMAIN w
       THEN \* KeyError at witness[v]
            /\ Abort("KeyError: public variable")
            /\ written' = {}
            /\ UNCHANGED self
       ELSE /\ pc' = ProveOrder[1]
            /\ err' = ""
            /\ LET upd == ProveUpdate(self, w)
               IN /\ self' = Assigned(self, upd)
                  /\ written' = DOMAIN upd
    /\ flat' = << >>
    /\ UNCHANGED salt

ProveFresh == \E w \in Witnesses : Prove(w, FALSE)
ProveAgain == pc \in {"done", "aborted"} /\ Prove(witness, TRUE)

(***************************************************************************)
(* round_1, lines 86-125.                                                  *)
(***************************************************************************)
\* an unused wire that defaults to 1
DefaultNoneOne(w) ==
    IF NoneKey \in DOMAIN w THEN w
    ELSE [k \in DOMAIN w \cup {NoneKey} |-> IF k = NoneKey THEN 1 ELSE w[k]]

\* lines 94-95: the unused wire defaults to 0, written into the caller's dict
DefaultNone(w) ==
    IF NoneKey \in DOMAIN w THEN w
    ELSE [k \in DOMAIN w \cup {NoneKey} |-> IF k = NoneKey THEN 0 ELSE w[k]]

\* lines 98-106: a column of wire values, padded with zeros to group_order
WirePoly(s, w, col) ==
    Vec([i \in 1..s.group_order |->
        IF i <= Len(Wires) THEN Scalar(w[Wires[i][col]]) ELSE 0])

\* the keys lines 98-100 look up
WireKeys == { Wires[i][col] : i \in 1..Len(Wires), col \in {"L", "R", "O"} }

\* a gate expression that leaves the public input out
GateExpressionNoPI(s) ==
    PolyAdd(PolyAdd(PolyAdd(PolyAdd(
        PolyMul(s.A, s.pk.QL),
        PolyMul(s.B, s.pk.QR)),
        PolyMul(PolyMul(s.A, s.B), s.pk.QM)),
        PolyMul(s.C, s.pk.QO)),
        s.pk.QC)

\* lines 115-120: A*QL + B*QR + A*B*QM + C*QO + PI + QC, pointwise
GateExpression(s) ==
    PolyAdd(PolyAdd(PolyAdd(PolyAdd(PolyAdd(
        PolyMul(s.A, s.pk.QL),
        PolyMul(s.B, s.pk.QR)),
        PolyMul(PolyMul(s.A, s.B), s.pk.QM)),
        PolyMul(s.C, s.pk.QO)),
        s.PI),
        s.pk.QC)

\* lines 98-106: the fields round_1 assigns
Round1Update(s, w) ==
    [A |-> WirePoly(s, w, "L"), B |-> WirePoly(s, w, "R"), C |-> WirePoly(s, w, "O")]

Round1Reads == {"PI"}

Round1 ==
    /\ pc = "round_1"
    /\ steps' = Append(steps, "round_1")
    /\ witness' = DefaultNone(witness)
    /\ IF ~(WireKeys \subseteq DOMAIN witness')
       THEN \* KeyError while building A, B, C
            /\ Abort("KeyError: wire")
            /\ UNCHANGED << self, msgs, commits, written, staleReads >>
       ELSE LET a_1 == Commit(self.setup, self'.A)
                b_1 == Commit(self.setup, self'.B)
                c_1 == Commit(self.setup, self'.C)
            IN /\ Assign(Round1Update(self, witness'))
               /\ Reads(Round1Reads)
               /\ commits' = commits + 3
               /\ IF GateExpression(self') = Zeros(self.group_order)
                  THEN /\ msgs' = [msgs EXCEPT !.msg_1 =
                                      [a_1 |-> a_1, b_1 |-> b_1, c_1 |-> c_1]]
                       /\ pc' = After("round_1")
                       /\ err' = ""
                  ELSE /\ Abort("round 1: gate constraints")
                       /\ UNCHANGED msgs
    /\ UNCHANGED << salt, flat, transcript, r5, result, winput, reused, last >>

\* transcript.round_1(msg_1), line 67
Transcript1Challenges(t) ==
    [beta |-> Challenge(t, 1, Betas), gamma |-> Challenge(t, 2, Gammas)]
Transcript1 ==
    /\ pc = "transcript_1"
    /\ steps' = Append(steps, "transcript_1")
    /\ LET t == Absorb(transcript, 1,
                       << msgs.msg_1.a_1, msgs.msg_1.b_1, msgs.msg_1.c_1 >>)
       IN /\ transcript' = t
          /\ Assign(Transcript1Challenges(t))
    /\ pc' = After("transcript_1")
    /\ UNCHANGED << salt, flat, err, witness, msgs, r5, result, commits, staleReads,
                    winput, reused, last >>

(***************************************************************************)
(* round_2, lines 127-173.                                                 *)
(***************************************************************************)
\* a combination that ignores the position label
RlcNoBeta(s, term_1, term_2) == FAdd(term_1, s.gamma)

\* rlc, lines 424-425
Rlc(s, term_1, term_2) == FAdd(FAdd(term_1, FMul(term_2, s.beta)), s.gamma)

\* the numerator and the denominator of step i (0-based) of the grand product
GrandNum(s, i) ==
    LET ru == RootsOfUnity(s.group_order)
    IN FMul(FMul(Rlc(s, s.A[i + 1], ru[i + 1]),
                 Rlc(s, s.B[i + 1], FMul(2, ru[i + 1]))),
            Rlc(s, s.C[i + 1], FMul(3, ru[i + 1])))
GrandDen(s, i) ==
    FMul(FMul(Rlc(s, s.A[i + 1], s.pk.S1[i + 1]),
              Rlc(s, s.B[i + 1], s.pk.S2[i + 1])),
         Rlc(s, s.C[i + 1], s.pk.S3[i + 1]))

\* lines 139-148: Z_values[0..k], k+1 values
RECURSIVE ZValues(_, _)
ZValues(s, k) ==
    IF k = 0 THEN << 1 >>
    ELSE LET prev == ZValues(s, k - 1)
         IN Append(prev, FDiv(FMul(GrandNum(s, k - 1), prev[k]), GrandDen(s, k - 1)))

\* lines 154-165: the per-step check on the n values left after the pop
RecurrenceHolds(s, Zv) ==
    \A i \in 0..(s.group_order - 1) :
        FSub(FMul(GrandNum(s, i), Zv[i + 1]),
             FMul(GrandDen(s, i), Zv[((i + 1) % s.group_order) + 1])) = 0

Round2Reads == {"A", "B", "C", "beta", "gamma"}

Round2 ==
    /\ pc = "round_2"
    /\ steps' = Append(steps, "round_2")
    /\ Reads(Round2Reads)
    /\ LET Zall == ZValues(self, self.group_order)
           Zv == SubSeq(Zall, 1, self.group_order)
       IN IF Zall[self.group_order + 1] # 1
          THEN /\ Abort("round 2: Z_n = 1")
               /\ UNCHANGED << self, msgs, commits, written >>
          ELSE IF ~RecurrenceHolds(self, Zv)
          THEN /\ Abort("round 2: recurrence")
               /\ UNCHANGED << self, msgs, commits, written >>
          ELSE /\ Assign([Z |-> Zv])
               /\ commits' = commits + 1
               /\ msgs' = [msgs EXCEPT !.msg_2 = [z_1 |-> Commit(self.setup, Zv)]]
               /\ pc' = After("round_2")
               /\ err' = ""
    /\ UNCHANGED << salt, flat, witness, transcript, r5, result, winput, reused, last >>

\* a transcript round that hands back alpha only
Transcript2ChallengesNoCofactor(t) == [alpha |-> Challenge(t, 1, Alphas)]

\* transcript.round_2(msg_2), line 71
Transcript2Challenges(t) ==
    [alpha |-> Challenge(t, 1, Alphas), fft_cofactor |-> Challenge(t, 2, Cofactors)]
Transcript2 ==
    /\ pc = "transcript_2"
    /\ steps' = Append(steps, "transcript_2")
    /\ LET t == Absorb(transcript, 2, << msgs.msg_2.z_1 >>)
       IN /\ transcript' = t
          /\ Assign(Transcript2Challenges(t))
    /\ pc' = After("transcript_2")
    /\ UNCHANGED << salt, flat, err, witness, msgs, r5, result, commits, staleReads,
                    winput, reused, last >>

(***************************************************************************)
(* round_3, lines 175-290.                                                 *)
(***************************************************************************)
\* fft_expand, lines 415-416
FftExpand(s, x) == ToCosetExtendedLagrange(x, s.fft_cofactor)
\* coeffs_expand, lines 418-419
CoeffsExpand(s, x, group_order) == CoeffsToExtendedLagrange(x, s.fft_cofactor, group_order)
\* expanded_evals_to_coeffs, lines 421-422
ExpandedEvalsToCoeffs(s, x) == CosetExtendedLagrangeToCoeffs(x, s.fft_cofactor)

\* rlc of two polynomials, pointwise
RlcPoly(s, p, q) == PolyAddS(PolyAdd(p, PolyScale(q, s.beta)), s.gamma)

\* line 208: Z(wX) expanded from the rotated values
ZShiftBig(s) == FftExpand(s, Append(Tail(s.Z), Head(s.Z)))
\* line 209: Z(wX) expanded over the coset of offset fft_cofactor * w
ZShiftBig1(s) ==
    ToCosetExtendedLagrange(s.Z, FMul(s.fft_cofactor, RootOfUnity(s.group_order)))

\* line 219: Z_H = X^n - 1 over the coset
ZHBig(s) ==
    CoeffsExpand(s, Vec([i \in 1..(s.group_order + 1) |->
                        IF i = 1 THEN P - 1 ELSE IF i = s.group_order + 1 THEN 1 ELSE 0]),
                 s.group_order)
\* lines 221-223: the polynomial k*X over the coset
ShiftRuBig(s, k) == CoeffsExpand(s, << 0, k >>, s.group_order)

\* line 226: the permutation polynomials sum to the identity labels
PermutationSumsAgree(s) ==
    SumSeq(FftExpand(s, s.pk.S1) \o FftExpand(s, s.pk.S2) \o FftExpand(s, s.pk.S3))
      = SumSeq(ShiftRuBig(s, 1) \o ShiftRuBig(s, 2) \o ShiftRuBig(s, 3))

\* lines 233-235
L0Big(s) == FftExpand(s, Vec([i \in 1..s.group_order |-> IF i = 1 THEN 1 ELSE 0]))

\* line 241: the gate constraints over the coset
P0Big(s) ==
    LET A_big == FftExpand(s, s.A)
        B_big == FftExpand(s, s.B)
        C_big == FftExpand(s, s.C)
    IN PolyAdd(PolyAdd(PolyAdd(PolyAdd(PolyAdd(
           PolyMul(A_big, FftExpand(s, s.pk.QL)),
           PolyMul(B_big, FftExpand(s, s.pk.QR))),
           PolyMul(PolyMul(A_big, B_big), FftExpand(s, s.pk.QM))),
           PolyMul(C_big, FftExpand(s, s.pk.QO))),
           FftExpand(s, s.PI)),
           FftExpand(s, s.pk.QC))

\* line 247: the permutation accumulator step over the coset
P1Big(s) ==
    LET A_big == FftExpand(s, s.A)
        B_big == FftExpand(s, s.B)
        C_big == FftExpand(s, s.C)
    IN PolySub(
         PolyMul(PolyMul(PolyMul(FftExpand(s, s.Z),
                                 RlcPoly(s, A_big, ShiftRuBig(s, 1))),
                         RlcPoly(s, B_big, ShiftRuBig(s, 2))),
                 RlcPoly(s, C_big, ShiftRuBig(s, 3))),
         PolyMul(PolyMul(PolyMul(ZShiftBig(s),
                                 RlcPoly(s, A_big, FftExpand(s, s.pk.S1))),
                         RlcPoly(s, B_big, FftExpand(s, s.pk.S2))),
                 RlcPoly(s, C_big, FftExpand(s, s.pk.S3))))

\* the accumulator constrained to 1 at every point instead of the first one
P2BigNoL0(s) == PolySubS(FftExpand(s, s.Z), 1)

\* line 251: the accumulator starts at 1
P2Big(s) == PolyMul(PolySubS(FftExpand(s, s.Z), 1), L0Big(s))

\* line 253
QuotBig(s) ==
    PolyDiv(PolyAdd(PolyAdd(P0Big(s), PolyScale(P1Big(s), s.alpha)),
                    PolyScale(P2Big(s), FPow(s.alpha, 2))),
            ZHBig(s))

\* lines 275-279: T1 + X^n T2 + X^2n T3 at X = fft_cofactor
SplitAtCofactor(s, T1, T2, T3) ==
    FAdd(FAdd(BarycentricEval(T1, s.fft_cofactor),
              FMul(BarycentricEval(T2, s.fft_cofactor),
                   FPow(s.fft_cofactor, s.group_order))),
         FMul(BarycentricEval(T3, s.fft_cofactor),
              FPow(s.fft_cofactor, s.group_order * 2)))

Round3Reads == {"fft_cofactor", "A", "B", "C", "PI", "Z", "beta", "gamma", "alpha"}

Round3 ==
    /\ pc = "round_3"
    /\ steps' = Append(steps, "round_3")
    /\ Reads(Round3Reads)
    /\ LET n == self.group_order
           QUOT_big == QuotBig(self)
           T == ExpandedEvalsToCoeffs(self, QUOT_big)
           T1 == Fft(SubSeq(T, 1, n))
           T2 == Fft(SubSeq(T, n + 1, 2 * n))
           T3 == Fft(SubSeq(T, 2 * n + 1, 3 * n))
       IN IF ZShiftBig(self) # ZShiftBig1(self)
          THEN /\ Abort("round 3: Z shift")
               /\ UNCHANGED << self, msgs, commits, written >>
          ELSE IF ~PermutationSumsAgree(self)
          THEN /\ Abort("round 3: permutation sum")
               /\ UNCHANGED << self, msgs, commits, written >>
          ELSE IF SubSeq(T, 3 * n + 1, 4 * n) # Zeros(n)
          THEN /\ Abort("round 3: degree of the quotient")
               /\ UNCHANGED << self, msgs, commits, written >>
          ELSE /\ Assign([T |-> T, T1 |-> T1, T2 |-> T2, T3 |-> T3])
               /\ IF SplitAtCofactor(self, T1, T2, T3) # QUOT_big[1]
                  THEN /\ Abort("round 3: T1, T2, T3")
                       /\ UNCHANGED << msgs, commits >>
                  ELSE /\ commits' = commits + 3
                       /\ msgs' = [msgs EXCEPT !.msg_3 =
                                      [t_lo_1 |-> Commit(self.setup, T1),
                                       t_mid_1 |-> Commit(self.setup, T2),
                                       t_hi_1 |-> Commit(self.setup, T3)]]
                       /\ pc' = After("round_3")
                       /\ err' = ""
    /\ UNCHANGED << salt, flat, witness, transcript, r5, result, winput, reused, last >>

\* transcript.round_3(msg_3), line 75
Transcript3Challenges(t) == [zeta |-> Challenge(t, 1, Zetas)]
Transcript3 ==
    /\ pc = "transcript_3"
    /\ steps' = Append(steps, "transcript_3")
    /\ LET t == Absorb(transcript, 3,
                       << msgs.msg_3.t_lo_1, msgs.msg_3.t_mid_1, msgs.msg_3.t_hi_1 >>)
       IN /\ transcript' = t
          /\ Assign(Transcript3Challenges(t))
    /\ pc' = After("transcript_3")
    /\ UNCHANGED << salt, flat, err, witness, msgs, r5, result, commits, staleReads,
                    winput, reused, last >>

(***************************************************************************)
(* round_4, lines 292-311.                                                 *)
(***************************************************************************)
Round4Msg(s) ==
    LET ru == RootOfUnity(s.group_order)
    IN [ a_eval |-> BarycentricEval(s.A, s.zeta),
         b_eval |-> BarycentricEval(s.B, s.zeta),
         c_eval |-> BarycentricEval(s.C, s.zeta),
         s1_eval |-> BarycentricEval(s.pk.S1, s.zeta),
         s2_eval |-> BarycentricEval(s.pk.S2, s.zeta),
         z_shifted_eval |-> BarycentricEval(s.Z, FMul(s.zeta, ru)) ]

Round4Reads == {"zeta", "A", "B", "C", "Z"}

Round4 ==
    /\ pc = "round_4"
    /\ steps' = Append(steps, "round_4")
    /\ Reads(Round4Reads)
    /\ Assign([msg4 |-> Round4Msg(self)])
    /\ msgs' = [msgs EXCEPT !.msg_4 = self'.msg4]
    /\ pc' = After("round_4")
    /\ UNCHANGED << salt, flat, err, witness, transcript, r5, result, commits,
                    winput, reused, last >>

\* transcript.round_4(msg_4), line 79
Transcript4Challenges(t) == [v |-> Challenge(t, 1, Vs)]
Transcript4 ==
    /\ pc = "transcript_4"
    /\ steps' = Append(steps, "transcript_4")
    /\ LET m == msgs.msg_4
           t == Absorb(transcript, 4,
                       << m.a_eval, m.b_eval, m.c_eval, m.s1_eval, m.s2_eval,
                          m.z_shifted_eval >>)
       IN /\ transcript' = t
          /\ Assign(Transcript4Challenges(t))
    /\ pc' = After("transcript_4")
    /\ UNCHANGED << salt, flat, err, witness, msgs, r5, result, commits, staleReads,
                    winput, reused, last >>

(***************************************************************************)
(* round_5, lines 313-413.                                                 *)
(***************************************************************************)
\* a combination that multiplies the polynomial by gamma instead of beta
Rlc1Swapped(s, term_1, term_2) ==
    PolyAddS(PolyAddS(PolyScale(term_2, s.gamma), term_1), s.beta)

\* rlc1, lines 427-428, of a scalar and a polynomial
Rlc1(s, term_1, term_2) == PolyAddS(PolyAddS(PolyScale(term_2, s.beta), term_1), s.gamma)

\* lines 340-345: the evaluations round 5 computes for itself
Round5Evals(s) ==
    LET ru == RootOfUnity(s.group_order)
    IN [ A_zeta |-> BarycentricEval(s.A, s.zeta),
         B_zeta |-> BarycentricEval(s.B, s.zeta),
         C_zeta |-> BarycentricEval(s.C, s.zeta),
         Z_shift_zeta |-> BarycentricEval(s.Z, FMul(s.zeta, ru)),
         S1_zeta |-> BarycentricEval(s.pk.S1, s.zeta),
         S2_zeta |-> BarycentricEval(s.pk.S2, s.zeta) ]

\* line 346
P0Zeta(s, e) ==
    PolyAdd(PolyAddS(PolyAdd(PolyAdd(PolyAdd(
        PolyScale(s.pk.QL, e.A_zeta),
        PolyScale(s.pk.QR, e.B_zeta)),
        PolyScale(s.pk.QM, FMul(e.A_zeta, e.B_zeta))),
        PolyScale(s.pk.QO, e.C_zeta)),
        BarycentricEval(s.PI, s.zeta)),
        s.pk.QC)

\* line 347
P1Zeta(s, e) ==
    PolySub(
      PolyScale(PolyScale(PolyScale(s.Z,
                Rlc(s, e.A_zeta, s.zeta)),
                Rlc(s, e.B_zeta, FMul(s.zeta, 2))),
                Rlc(s, e.C_zeta, FMul(s.zeta, 3))),
      PolyScale(PolyScale(PolyScale(Rlc1(s, e.C_zeta, s.pk.S3),
                e.Z_shift_zeta),
                Rlc(s, e.A_zeta, e.S1_zeta)),
                Rlc(s, e.B_zeta, e.S2_zeta)))

\* line 348, with L0_zeta of line 321
P2Zeta(s) ==
    PolyScale(PolySubS(s.Z, 1),
              BarycentricEval(Vec([i \in 1..s.group_order |-> IF i = 1 THEN 1 ELSE 0]), s.zeta))

\* line 349, with ZH_zeta of line 324
RHSZeta(s) ==
    PolyScale(PolyAdd(PolyAdd(s.T1,
                              PolyScale(s.T2, FPow(s.zeta, s.group_order))),
                      PolyScale(s.T3, FPow(s.zeta, s.group_order * 2))),
              FSub(FPow(s.zeta, s.group_order), 1))

\* line 350: the linearization polynomial
Linearization(s, e) ==
    PolySub(PolyAdd(PolyAdd(P0Zeta(s, e), PolyScale(P1Zeta(s, e), s.alpha)),
                    PolyScale(P2Zeta(s), FPow(s.alpha, 2))),
            RHSZeta(s))

\* X - x as n values: Polynomial([-x, 1, 0, ...], MONOMIAL).fft()
LinearFactor(x, n) ==
    Fft(Vec([i \in 1..n |-> IF i = 1 THEN FNeg(x) ELSE IF i = 2 THEN 1 ELSE 0]))

\* a batched numerator that does not subtract the evaluations
WzNumeratorNoEvals(s, e, R) ==
    PolyAdd(PolyAdd(PolyAdd(PolyAdd(PolyAdd(R,
        PolyScale(s.A, s.v)),
        PolyScale(s.B, FPow(s.v, 2))),
        PolyScale(s.C, FPow(s.v, 3))),
        PolyScale(s.pk.S1, FPow(s.v, 4))),
        PolyScale(s.pk.S2, FPow(s.v, 5)))

\* the numerator of W_z, line 384
WzNumerator(s, e, R) ==
    PolyAdd(PolyAdd(PolyAdd(PolyAdd(PolyAdd(R,
        PolyScale(PolySubS(s.A, e.A_zeta), s.v)),
        PolyScale(PolySubS(s.B, e.B_zeta), FPow(s.v, 2))),
        PolyScale(PolySubS(s.C, e.C_zeta), FPow(s.v, 3))),
        PolyScale(PolySubS(s.pk.S1, e.S1_zeta), FPow(s.v, 4))),
        PolyScale(PolySubS(s.pk.S2, e.S2_zeta), FPow(s.v, 5)))

\* lines 387-389: the coefficients of R / (X - zeta) taken over 4n points
WzCoeffs(s, R) ==
    LET n == s.group_order
        c == Ifft(R)
        R_z_big == Fft(Vec([i \in 1..(4 * n) |-> IF i <= n THEN c[i] ELSE 0]))
    IN Ifft(PolyDiv(R_z_big, LinearFactor(s.zeta, 4 * n)))

\* the numerator of W_zw, line 402
WzwNumerator(s, e) == PolySubS(s.Z, e.Z_shift_zeta)

Round5Reads == {"zeta", "A", "B", "C", "Z", "PI", "T1", "T2", "T3",
                "beta", "gamma", "alpha", "v"}

Round5 ==
    /\ pc = "round_5"
    /\ steps' = Append(steps, "round_5")
    /\ Reads(Round5Reads)
    /\ LET n == self.group_order
           e == Round5Evals(self)
           R == Linearization(self, e)
           W_z == PolyDiv(WzNumerator(self, e, R), LinearFactor(self.zeta, n))
           W_zw == PolyDiv(WzwNumerator(self, e),
                           LinearFactor(FMul(self.zeta, RootOfUnity(n)), n))
       IN IF BarycentricEval(R, self.zeta) # 0
          THEN /\ Abort("round 5: R(zeta) = 0")
               /\ r5' = [r5 EXCEPT !.R = R]
               /\ commits' = commits + 1
               /\ UNCHANGED msgs
          ELSE IF SubSeq(WzCoeffs(self, R), n + 1, 4 * n) # Zeros(3 * n)
          THEN /\ Abort("round 5: degree of W_z")
               /\ r5' = [r5 EXCEPT !.R = R]
               /\ commits' = commits + 1
               /\ UNCHANGED msgs
          ELSE /\ r5' = [R |-> R, W_z |-> W_z, W_zw |-> W_zw]
               /\ commits' = commits + 3
               /\ msgs' = [msgs EXCEPT !.msg_5 =
                              [W_z_1 |-> Commit(self.setup, W_z),
                               W_zw_1 |-> Commit(self.setup, W_zw)]]
               /\ pc' = After("round_5")
               /\ err' = ""
    /\ UNCHANGED << salt, flat, self, witness, transcript, result, written,
                    winput, reused, last >>

\* line 84: return Proof(msg_1, msg_2, msg_3, msg_4, msg_5)
Return ==
    /\ pc = "return"
    /\ steps' = Append(steps, "return")
    /\ result' = [msg_1 |-> msgs.msg_1, msg_2 |-> msgs.msg_2, msg_3 |-> msgs.msg_3,
                  msg_4 |-> msgs.msg_4, msg_5 |-> msgs.msg_5]
    /\ pc' = "done"
    /\ UNCHANGED << salt, flat, err, self, witness, transcript, msgs, r5, commits,
                    written, staleReads, winput, reused, last >>

\* lines 18-35: the caller flattens the Proof prove returned
FlattenProof ==
    /\ pc = "done"
    /\ flat' = Flatten(result)
    /\ UNCHANGED << salt, pc, err, self, witness, transcript, msgs, r5, result,
                    steps, commits, written, staleReads, winput, reused, last >>

Next ==
    \/ ProveFresh
    \/ ProveAgain
    \/ Round1
    \/ Transcript1
    \/ Round2
    \/ Transcript2
    \/ Round3
    \/ Transcript3
    \/ Round4
    \/ Transcript4
    \/ Round5
    \/ Return
    \/ FlattenProof

Spec == Init /\ [][Next]_vars

\* no field division of rounds 2 to 5 has a zero divisor
NoZeroDivisor ==
    /\ pc \in {"round_2"} =>
          \A i \in 0..(self.group_order - 1) : GrandDen(self, i) # 0
    /\ pc = "round_3" => \A i \in 1..(4 * self.group_order) : ZHBig(self)[i] # 0
    /\ pc \in {"round_4", "round_5"} =>
          /\ \A i \in 1..(4 * self.group_order) : LinearFactor(self.zeta, 4 * self.group_order)[i] # 0
          /\ \A i \in 1..self.group_order :
                LinearFactor(FMul(self.zeta, RootOfUnity(self.group_order)), self.group_order)[i] # 0

(***************************************************************************)
(* Properties.                                                             *)
(***************************************************************************)
\* this invocation has entered step p
Entered(p) == \E i \in 1..Len(steps) : steps[i] = p
\* this invocation has completed step p
Completed(p) ==
    /\ Entered(p)
    /\ \/ pc # "aborted"
       \/ steps[Len(steps)] # p
AllKeys(w) == {"a", "b", "c"} \subseteq DOMAIN w
\* the circuit's meaning: the public c is the product of a and b
Satisfying(w) == AllKeys(w) /\ (w["a"] * w["b"]) % P = w["c"] % P
\* the value the witness gives the unused wire
NoneValue(w) == IF NoneKey \in DOMAIN w THEN w[NoneKey] % P ELSE 0
\* the end-to-end witnesses of the one-gate circuit
ExampleGood(w) == AllKeys(w) /\ w["a"] = 2 /\ w["b"] = 3 /\ w["c"] = 6 /\ NoneValue(w) = 0
ExampleBad(w) == AllKeys(w) /\ w["a"] = 2 /\ w["b"] = 4 /\ w["c"] = 6
GateAbort == pc = "aborted" /\ err = "round 1: gate constraints"

\* C1: round_1's sanity check passes exactly when the gate expression is zero at
\* all group_order points, which is exactly when the witness satisfies a*b = c;
\* the witness a=2, b=3, c=6 never aborts and returns a Proof, and an
\* unsatisfying witness (a=2, b=4, c=6) aborts in round 1 with no message
\* emitted and no Proof.
C1_GateSoundness ==
    /\ (Entered("round_1") /\ "A" \in written) =>
          /\ GateAbort <=> GateExpression(self) # Zeros(self.group_order)
          /\ GateAbort <=> ~Satisfying(winput)
          /\ ~GateAbort => Completed("round_1")
    /\ GateAbort =>
          /\ steps = << "round_1" >>
          /\ msgs = NoMsgs
          /\ transcript.log = << >>
          /\ result = NoProof
    /\ ExampleGood(winput) =>
          /\ pc # "aborted"
          /\ pc = "done" => result # NoProof
    /\ (ExampleBad(winput) /\ Entered("round_1")) => GateAbort
    /\ result # NoProof => (pc = "done" /\ Satisfying(winput))

C1_Witness ==
    /\ pc = "done"
    /\ ExampleGood(winput)
    /\ result # NoProof
    /\ GateExpression(self) = Zeros(self.group_order)

\* a cell's value and the cell the permutation links it to
CellValue(s, col, i) == IF col = 1 THEN s.A[i] ELSE IF col = 2 THEN s.B[i] ELSE s.C[i]
CellLabel(s, col, i) == FMul(col, RootsOfUnity(s.group_order)[i])
LinkedLabel(s, col, i) ==
    IF col = 1 THEN s.pk.S1[i] ELSE IF col = 2 THEN s.pk.S2[i] ELSE s.pk.S3[i]
\* every two cells the permutation links carry the same value
CopySatisfied(s) ==
    \A col \in 1..3, i \in 1..s.group_order :
    \A col2 \in 1..3, j \in 1..s.group_order :
        LinkedLabel(s, col, i) = CellLabel(s, col2, j)
            => CellValue(s, col, i) = CellValue(s, col2, j)
ClosureAbort == pc = "aborted" /\ err = "round 2: Z_n = 1"
RecurrenceAbort == pc = "aborted" /\ err = "round 2: recurrence"

\* C2 as amended: whenever round 2 completes, Z[0] = 1, every step of the
\* recurrence holds and Z[n] = 1; a gate-satisfying witness that breaks a copy
\* constraint aborts in round 2 without z_1 being emitted, and the assertion
\* that fails is the closure Z[n] == 1: the per-step check never fails.
C2_PermutationClosure ==
    /\ Completed("round_2") =>
          /\ ZValues(self, self.group_order)[self.group_order + 1] = 1
          /\ self.Z = SubSeq(ZValues(self, self.group_order), 1, self.group_order)
          /\ self.Z[1] = 1
          /\ \A i \in 1..(self.group_order - 1) :
                FMul(self.Z[i + 1], GrandDen(self, i - 1))
                   = FMul(self.Z[i], GrandNum(self, i - 1))
          /\ CopySatisfied(self)
          /\ msgs.msg_2.z_1 = Commit(self.setup, self.Z)
    /\ (Entered("round_2") /\ ~CopySatisfied(self)) =>
          /\ ClosureAbort
          /\ msgs.msg_2 = NoMsg2
          /\ commits = 3
          /\ transcript.log = << 1 >>
          /\ result = NoProof
    /\ ~RecurrenceAbort

C2_Witness ==
    /\ ClosureAbort
    /\ Satisfying(winput)
    /\ ~CopySatisfied(self)
    /\ msgs.msg_2 = NoMsg2

\* C2 as stated: for a gate-satisfying witness that breaks a copy constraint
\* the per-step recurrence check fails.
C2_Original ==
    (Entered("round_2") /\ ~CopySatisfied(self)) => RecurrenceAbort

\* the order of prove's steps, as the protocol fixes it
CanonicalSteps == << "round_1", "transcript_1", "round_2", "transcript_2",
                     "round_3", "transcript_3", "round_4", "transcript_4",
                     "round_5", "return" >>
\* the challenges each transcript round hands back
ChallengesOf(k) ==
    IF k = 1 THEN {"beta", "gamma"}
    ELSE IF k = 2 THEN {"alpha", "fft_cofactor"}
    ELSE IF k = 3 THEN {"zeta"} ELSE {"v"}
\* the number of transcript rounds among the first m steps
TranscriptRounds(m) == IF m \div 2 > 4 THEN 4 ELSE m \div 2

\* C3: every invocation runs round_1, transcript.round_1, ..., round_5, return
\* in this order, none skipped, repeated or reordered; round k+1 starts only
\* after transcript.round_k absorbed message k and its challenges were stored;
\* the transcript's rounds are called in increasing k.
C3_RoundOrdering ==
    /\ Len(steps) <= Len(CanonicalSteps)
    /\ steps = SubSeq(CanonicalSteps, 1, Len(steps))
    /\ pc \in {"idle", "done", "aborted"} \cup { CanonicalSteps[i] : i \in 1..Len(CanonicalSteps) }
    /\ (pc \notin {"idle", "done", "aborted"}) => pc = CanonicalSteps[Len(steps) + 1]
    /\ pc = "done" => steps = CanonicalSteps
    /\ pc = "idle" => steps = << >>
    /\ transcript.log = [k \in 1..TranscriptRounds(Len(steps)) |-> k]
    /\ \A k \in 1..4 :
          Entered(CanonicalSteps[2 * k + 1]) =>
              /\ transcript.log[k] = k
              /\ ChallengesOf(k) \subseteq written
              /\ \A f \in ChallengesOf(k) : self[f] \in 0..(P - 1)
    /\ msgs.msg_1 # NoMsg1 <=> Completed("round_1")
    /\ msgs.msg_2 # NoMsg2 <=> Completed("round_2")
    /\ msgs.msg_3 # NoMsg3 <=> Completed("round_3")
    /\ msgs.msg_4 # NoMsg4 <=> Completed("round_4")
    /\ msgs.msg_5 # NoMsg5 <=> Completed("round_5")

C3_Witness ==
    /\ pc = "done"
    /\ steps = CanonicalSteps
    /\ transcript.log = << 1, 2, 3, 4 >>
    /\ last.set

\* the value at x of the polynomial a LAGRANGE vector interpolates
ValueAt(p, x) == EvalCoeffs(Ifft(p), x)
\* points outside the evaluation domain at which identities are compared
SamplePoints == {2, 3, 10}
Round3Aborts == {"round 3: Z shift", "round 3: permutation sum",
                 "round 3: degree of the quotient", "round 3: T1, T2, T3"}

\* P0 + alpha P1 + alpha^2 P2 at the point x, from the polynomials' values at x
ConstraintsAt(s, x) ==
    LET a == ValueAt(s.A, x)
        b == ValueAt(s.B, x)
        c == ValueAt(s.C, x)
        z == ValueAt(s.Z, x)
        zw == ValueAt(s.Z, FMul(x, RootOfUnity(s.group_order)))
        l0 == FDiv(FSub(FPow(x, s.group_order), 1),
                   FMul(s.group_order, FSub(x, 1)))
        p0 == FAdd(FAdd(FAdd(FAdd(FAdd(
                  FMul(a, ValueAt(s.pk.QL, x)),
                  FMul(b, ValueAt(s.pk.QR, x))),
                  FMul(FMul(a, b), ValueAt(s.pk.QM, x))),
                  FMul(c, ValueAt(s.pk.QO, x))),
                  ValueAt(s.PI, x)),
                  ValueAt(s.pk.QC, x))
        id == FMul(s.beta, x)
        p1 == FSub(
                FMul(z, FMul(FMul(FAdd(FAdd(a, id), s.gamma),
                                  FAdd(FAdd(b, FMul(2, id)), s.gamma)),
                             FAdd(FAdd(c, FMul(3, id)), s.gamma))),
                FMul(zw, FMul(FMul(
                    FAdd(FAdd(a, FMul(s.beta, ValueAt(s.pk.S1, x))), s.gamma),
                    FAdd(FAdd(b, FMul(s.beta, ValueAt(s.pk.S2, x))), s.gamma)),
                    FAdd(FAdd(c, FMul(s.beta, ValueAt(s.pk.S3, x))), s.gamma))))
        p2 == FMul(FSub(z, 1), l0)
    IN FAdd(FAdd(p0, FMul(s.alpha, p1)), FMul(FMul(s.alpha, s.alpha), p2))

\* T1 + X^n T2 + X^2n T3 at the point x
ChunksAt(s, x) ==
    FAdd(FAdd(ValueAt(s.T1, x),
              FMul(FPow(x, s.group_order), ValueAt(s.T2, x))),
         FMul(FPow(x, 2 * s.group_order), ValueAt(s.T3, x)))

\* C4: a witness that passes the checks of rounds 1 and 2 never fails a check
\* of round 3; the interpolated quotient T has zero coefficients at degree >= 3n,
\* T * Z_H = P0 + alpha P1 + alpha^2 P2, the committed chunks are the three
\* n-coefficient thirds of T and T = T1 + X^n T2 + X^2n T3, at fft_cofactor in
\* particular.
C4_QuotientSplit ==
    /\ ~(pc = "aborted" /\ err \in Round3Aborts)
    /\ Completed("round_3") =>
          LET n == self.group_order
          IN /\ Len(self.T) = 4 * n
             /\ \A k \in (3 * n + 1)..(4 * n) : self.T[k] = 0
             /\ Ifft(self.T1) = SubSeq(self.T, 1, n)
             /\ Ifft(self.T2) = SubSeq(self.T, n + 1, 2 * n)
             /\ Ifft(self.T3) = SubSeq(self.T, 2 * n + 1, 3 * n)
             /\ \A x \in SamplePoints \cup {self.fft_cofactor} :
                   /\ EvalCoeffs(self.T, x) = ChunksAt(self, x)
                   /\ FMul(EvalCoeffs(self.T, x), FSub(FPow(x, n), 1))
                        = ConstraintsAt(self, x)
             /\ msgs.msg_3 = [t_lo_1 |-> Commit(self.setup, self.T1),
                              t_mid_1 |-> Commit(self.setup, self.T2),
                              t_hi_1 |-> Commit(self.setup, self.T3)]

C4_Witness ==
    /\ pc = "transcript_3"
    /\ \A k \in (3 * self.group_order + 1)..(4 * self.group_order) : self.T[k] = 0
    /\ \E k \in (2 * self.group_order + 1)..(3 * self.group_order) : self.T[k] # 0
    /\ EvalCoeffs(self.T, self.fft_cofactor) = ChunksAt(self, self.fft_cofactor)

\* the zeta a fresh transcript hands back once it absorbed messages 1, 2, 3
ZetaDrawn ==
    LET t1 == Absorb(NewTranscript, 1,
                     << msgs.msg_1.a_1, msgs.msg_1.b_1, msgs.msg_1.c_1 >>)
        t2 == Absorb(t1, 2, << msgs.msg_2.z_1 >>)
        t3 == Absorb(t2, 3,
                     << msgs.msg_3.t_lo_1, msgs.msg_3.t_mid_1, msgs.msg_3.t_hi_1 >>)
    IN Challenge(t3, 1, Zetas)
LinearizationAbort == pc = "aborted" /\ err = "round 5: R(zeta) = 0"

\* C5: for a witness that reached round 5 and the zeta the transcript returned
\* after round 3, the linearization polynomial R vanishes at zeta, so the check
\* R(zeta) == 0 never fails; were it to fail, neither W_z nor W_zw is committed.
C5_LinearizationZero ==
    /\ ~LinearizationAbort
    /\ Completed("round_5") =>
          /\ Len(r5.R) = self.group_order
          /\ ValueAt(r5.R, self.zeta) = 0
          /\ "zeta" \in written
          /\ self.zeta = ZetaDrawn
    /\ (Entered("round_5") /\ ~Completed("round_5")) =>
          /\ msgs.msg_5 = NoMsg5
          /\ r5.W_z = << >>
          /\ result = NoProof

C5_Witness ==
    /\ pc = "return"
    /\ r5.R # Zeros(self.group_order)
    /\ ValueAt(r5.R, self.zeta) = 0
    /\ msgs.msg_5 # NoMsg5

\* C6: two invocations on the same Prover with the same witness (the unused
\* wire absent or zero alike) return the same Proof, field by field, also when
\* the second invocation is passed the dict the first one was given.
C6_Determinism ==
    (pc = "done" /\ last.set /\ DefaultNone(winput) = DefaultNone(last.w)) =>
        /\ result = last.proof
        /\ Flatten(result) = Flatten(last.proof)

C6_Witness ==
    /\ pc = "done"
    /\ last.set
    /\ reused
    /\ NoneKey \notin DOMAIN last.w
    /\ winput = DefaultNone(last.w)
    /\ result = last.proof
    /\ result # NoProof

MissingPublic(w) == \E i \in 1..Len(PublicVars) : PublicVars[i] \notin DOMAIN w
MissingWire(w) == \E k \in WireKeys \ {NoneKey} : k \notin DOMAIN w
KeyErrorAbort == pc = "aborted" /\ err \in {"KeyError: public variable", "KeyError: wire"}
NothingEmitted ==
    /\ commits = 0
    /\ transcript.log = << >>
    /\ msgs = NoMsgs
    /\ result = NoProof

\* C7 as amended: an absent unused wire is given the value 0 (written into the
\* caller's dict); a witness that lacks a public variable aborts before round_1
\* is entered, one that lacks another wire aborts inside round_1 while A, B, C
\* are built; in both cases no commitment was computed, no message was emitted
\* or absorbed, and no Proof is returned.
C7_WitnessInput ==
    /\ (pc # "idle" /\ MissingPublic(winput)) =>
          /\ pc = "aborted"
          /\ err = "KeyError: public variable"
          /\ steps = << >>
          /\ NothingEmitted
    /\ (Entered("round_1") /\ MissingWire(winput)) =>
          /\ pc = "aborted"
          /\ err = "KeyError: wire"
          /\ steps = << "round_1" >>
          /\ NothingEmitted
    /\ KeyErrorAbort => (MissingPublic(winput) \/ MissingWire(winput))
    /\ Entered("round_1") =>
          /\ NoneKey \in DOMAIN witness
          /\ witness[NoneKey] = NoneValue(winput)
          /\ \A k \in DOMAIN winput : witness[k] = winput[k]
    /\ (Entered("round_1") /\ "A" \in written) =>
          /\ self.B[1] = NoneValue(winput)
          /\ self.C[1] = NoneValue(winput)

C7_Witness ==
    /\ KeyErrorAbort
    /\ err = "KeyError: wire"
    /\ NoneKey \notin DOMAIN winput
    /\ witness[NoneKey] = 0
    /\ steps = << "round_1" >>
    /\ NothingEmitted

\* C7 as stated: a witness that lacks an assignment aborts before round 1.
C7_Original ==
    (pc = "aborted" /\ (MissingPublic(winput) \/ MissingWire(winput))) => ~Entered("round_1")

FlattenNames == << "a_1", "b_1", "c_1", "z_1", "t_lo_1", "t_mid_1", "t_hi_1",
                   "a_eval", "b_eval", "c_eval", "s1_eval", "s2_eval",
                   "z_shifted_eval", "W_z_1", "W_zw_1" >>
\* the components of the five messages, message by message
MessageComponents(m) ==
    << m.msg_1.a_1, m.msg_1.b_1, m.msg_1.c_1, m.msg_2.z_1,
       m.msg_3.t_lo_1, m.msg_3.t_mid_1, m.msg_3.t_hi_1,
       m.msg_4.a_eval, m.msg_4.b_eval, m.msg_4.c_eval,
       m.msg_4.s1_eval, m.msg_4.s2_eval, m.msg_4.z_shifted_eval,
       m.msg_5.W_z_1, m.msg_5.W_zw_1 >>
Flattened == flat # << >>

\* C8 as amended: flatten returns 15 named fields, in the order a_1, b_1, c_1,
\* z_1, t_lo_1, t_mid_1, t_hi_1, a_eval, b_eval, c_eval, s1_eval, s2_eval,
\* z_shifted_eval, W_z_1, W_zw_1, each the same-named component of its message,
\* none omitted and none duplicated.
C8_ProofWireFormat ==
    Flattened =>
        /\ Len(flat) = 15
        /\ Len(flat) = Len(FlattenNames)
        /\ \A i \in 1..Len(flat) :
              /\ flat[i][1] = FlattenNames[i]
              /\ flat[i][2] = MessageComponents(msgs)[i]
        /\ \A i, j \in 1..Len(flat) : flat[i][1] = flat[j][1] => i = j

C8_Witness ==
    /\ pc = "done"
    /\ Flattened
    /\ Len(flat) = 15
    /\ flat[15] = << "W_zw_1", msgs.msg_5.W_zw_1 >>
    /\ flat[2][2] # flat[1][2]

\* C8 as stated: the record has 14 fields.
C8_Original ==
    Flattened =>
        /\ Len(flat) = 14
        /\ \A i \in 1..Len(flat) : flat[i][2] = MessageComponents(msgs)[i]

\* points at which a degree <= n identity is compared: n + 1 of them, none in
\* the evaluation domain
OpeningPoints == {2, 3, 4, 6, 10}

\* the batched numerator of W_z at x, from the evaluations msg_4 revealed
BatchedAt(s, R, e4, x) ==
    FAdd(FAdd(FAdd(FAdd(FAdd(ValueAt(R, x),
        FMul(s.v, FSub(ValueAt(s.A, x), e4.a_eval))),
        FMul(FPow(s.v, 2), FSub(ValueAt(s.B, x), e4.b_eval))),
        FMul(FPow(s.v, 3), FSub(ValueAt(s.C, x), e4.c_eval))),
        FMul(FPow(s.v, 4), FSub(ValueAt(s.pk.S1, x), e4.s1_eval))),
        FMul(FPow(s.v, 5), FSub(ValueAt(s.pk.S2, x), e4.s2_eval)))

EvaluationsMatch(s, e4) ==
    /\ e4.a_eval = ValueAt(s.A, s.zeta)
    /\ e4.b_eval = ValueAt(s.B, s.zeta)
    /\ e4.c_eval = ValueAt(s.C, s.zeta)
    /\ e4.s1_eval = ValueAt(s.pk.S1, s.zeta)
    /\ e4.s2_eval = ValueAt(s.pk.S2, s.zeta)
    /\ e4.z_shifted_eval = ValueAt(s.Z, FMul(s.zeta, RootOfUnity(s.group_order)))

PerProofPolys == {"PI", "A", "B", "C", "Z", "T", "T1", "T2", "T3"}
Retained == \A f \in PerProofPolys : self[f] # << >>
Discarded == \A f \in PerProofPolys \ {"PI"} : self[f] = << >>

\* C10 as amended: over any sequence of prove calls on one Prover, aborted
\* ones included, every per-proof field a step reads was written earlier in
\* the same invocation, and pk, setup and group_order are never modified; the
\* per-proof polynomials are not discarded when the Proof is returned: they
\* stay on the Prover until a later invocation overwrites them.
C10_StateIsolation ==
    /\ staleReads = {}
    /\ self.pk = CommonPreprocessedInput
    /\ self.setup = [tau |-> TAU]
    /\ self.group_order = N
    /\ (pc = "done" \/ last.set) => Retained

C10_Witness ==
    /\ last.set
    /\ pc = "round_3"
    /\ "T" \notin written
    /\ self.T # << >>
    /\ witness # last.w
    /\ staleReads = {}

\* C10 as stated: the per-proof polynomials are discarded once the Proof is
\* returned.
C10_Original ==
    /\ staleReads = {}
    /\ self.pk = CommonPreprocessedInput
    /\ pc = "done" => Discarded

=============================================================================
